---- MODULE Spec2Model ----
(***************************************************************************)
(* Risiko-Manager: the Elo rating engine (elo.py), the SQLite ledger       *)
(* (db.py) and the request layer in front of it (flask_app.py).            *)
(*                                                                         *)
(* Numbers.  Ratings, deltas and probabilities are Python floats (IEEE     *)
(* binary64, round-to-nearest-even).  The model keeps the rounding rule    *)
(* and shrinks the significand to MantBits bits: a float is an integer     *)
(* count of units of 2^-FracBits, and every arithmetic operation rounds    *)
(* its exact result to MantBits significant bits, ties to even.            *)
(*                                                                         *)
(* Identifiers.  uuid4 values are modelled by counters: an identifier is   *)
(* never handed out twice.  The created_at columns are written and never   *)
(* read by the code modelled here; they are left out.                      *)
(***************************************************************************)
EXTENDS Integers, Sequences, FiniteSets, TLC

\* ------------------------------------------------------------------ bounds
MaxPlayerIds == 3       \* players ever created
MaxMatchIds  == 2       \* matches ever recorded
MaxLosers    == 2       \* length of a request's loser_ids
MaxRequests  == 5       \* requests that changed the database
MantBits     == 10      \* significand bits of the modelled float
FracBits     == MantBits + 4      \* a float counts units of 2^-FracBits

PlayerIds == 1..MaxPlayerIds
MatchIds  == 1..MaxMatchIds
Names     == 1..MaxPlayerIds      \* display names
Dates     == {1, 2}               \* date labels, ordered as the strings are
KValues   == {16, 32}             \* K-factors an administrator sets
Missing   == 0                    \* an absent, null or empty request field

\* ------------------------------------------------------- float arithmetic
RECURSIVE Pow2(_)
Pow2(n) == IF n = 0 THEN 1 ELSE 2 * Pow2(n - 1)

One == Pow2(FracBits)             \* 1.0
F(n) == n * One                   \* the float of a small integer

\* The float operations are functions: TLC evaluates a function's argument
\* once, and an operator's argument once for every use of it.
BitLen[n \in Nat] == IF n = 0 THEN 0 ELSE 1 + BitLen[n \div 2]

\* n/d (n >= 0, d > 0) rounded to the nearest integer, ties to even
RoundHalfEven[n \in Nat, d \in Nat] ==
    IF 2 * (n % d) > d \/ (2 * (n % d) = d /\ (n \div d) % 2 = 1)
    THEN (n \div d) + 1 ELSE n \div d

\* the float nearest to the rational n/d units (n >= 0, d > 0): at most
\* MantBits significant bits
RoundTo[n \in Nat, d \in Nat, L \in Nat] ==
    IF L > MantBits
    THEN RoundHalfEven[n, d * Pow2(L - MantBits)] * Pow2(L - MantBits)
    ELSE RoundHalfEven[n, d]

FlQ[n \in Int, d \in Nat] ==
    IF n < 0 THEN -RoundTo[-n, d, BitLen[(-n) \div d]]
    ELSE RoundTo[n, d, BitLen[n \div d]]

Fl[x \in Int] == FlQ[x, 1]

FAdd[a \in Int, b \in Int] == Fl[a + b]
FSub[a \in Int, b \in Int] == Fl[a - b]

\* x = Odd[x] * 2^Tz[x]: the significand and exponent of a float
Tz[x \in Nat] == IF x = 0 \/ x % 2 = 1 THEN 0 ELSE 1 + Tz[x \div 2]
Odd[x \in Nat] == x \div Pow2(Tz[x])
Abs[x \in Int] == IF x < 0 THEN -x ELSE x
Sgn[x \in Int] == IF x < 0 THEN -1 ELSE 1

\* the float nearest to n * 2^e units (e may be negative)
FlScaled[n \in Int, e \in Int] ==
    IF e >= 0 THEN Fl[n * Pow2(e)] ELSE FlQ[n, Pow2(-e)]

FMul[a \in Int, b \in Int] ==
    FlScaled[Sgn[a] * Sgn[b] * Odd[Abs[a]] * Odd[Abs[b]],
             Tz[Abs[a]] + Tz[Abs[b]] - FracBits]

\* the float nearest to n * 2^e / d
FlRatio[n \in Int, d \in Nat, e \in Int] ==
    IF e >= 0 THEN FlQ[n * Pow2(e), d] ELSE FlQ[n, d * Pow2(-e)]

\* a / b, b # 0
FDiv[a \in Int, b \in Int] ==
    FlRatio[Sgn[a] * Sgn[b] * Odd[Abs[a]], Odd[Abs[b]],
            Tz[Abs[a]] + FracBits - Tz[Abs[b]]]

\* ------------------------------------------------------------------ elo.py
\* math.pow(10, t): the C library's result is the float nearest to 10^t (to
\* within an ulp).  Here 10^t = 2^n * 2^f with n + f = t * log2(10), 0 <= f < 1,
\* and 2^f = e^(f ln 2) by its Taylor polynomial of degree 6, in fixed point;
\* the result is rounded to a float.
FixMul[a \in Int, b \in Int] == (2 * a * b + One) \div (2 * One)

\* 1 + z/i * (1 + z/(i+1) * (...)), cut after the term of degree 6
ExpPoly[z \in Int, i \in Nat] ==
    IF i > 6 THEN One
    ELSE One + (2 * FixMul[z, ExpPoly[z, i + 1]] + i) \div (2 * i)

\* 2^(u/One) for u in units: 2^floor * 2^fraction, ln(2) ~ 2839 / 4096
Pow2Fix[u \in Int] ==
    FlScaled[ExpPoly[(2 * (u % One) * 2839 + 4096) \div 8192, 1], u \div One]

\* 10^t = 2^(t * log2(10)), log2(10) ~ 13607 / 4096
Pow10[t \in Int] == Pow2Fix[(2 * t * 13607 + 4096) \div 8192]

\* Elo.expected_score
expected_score(rating_a, rating_b) ==
    FDiv[One, FAdd[One, Pow10[FDiv[FSub[rating_b, rating_a], F(400)]]]]

\* Elo.calculate_deltas: <<winner_delta, loser_deltas>>.  The loop, from the
\* loser at position i on.
calculate_deltas_from[i \in Nat, winner_delta \in Int, loser_deltas \in Seq(Int),
                      winner_rating \in Int, loser_ratings \in Seq(Int),
                      k_factor \in Int] ==
    IF i > Len(loser_ratings) THEN <<winner_delta, loser_deltas>>
    ELSE LET l_rating == loser_ratings[i]
             exp_win  == expected_score(winner_rating, l_rating)
             single_match_win_delta == FMul[k_factor, FSub[One, exp_win]]
             exp_loss == expected_score(l_rating, winner_rating)
             single_match_loss_delta == FMul[k_factor, FSub[0, exp_loss]]
         IN  calculate_deltas_from[i + 1,
                                   FAdd[winner_delta, single_match_win_delta],
                                   Append(loser_deltas, single_match_loss_delta),
                                   winner_rating, loser_ratings, k_factor]

calculate_deltas(winner_rating, loser_ratings, k_factor) ==
    calculate_deltas_from[1, 0, <<>>, winner_rating, loser_ratings, k_factor]

\* ------------------------------------------------------------------- db.py
VARIABLES
    players,          \* table players: id -> [name, rating, games_played]
    matches,          \* table matches: id -> [date, k_factor_used, winner_id]
    participations,   \* table participations, in rowid order
    k_factor,         \* system_settings['k_factor'], as get_k_factor reads it
    next_player_id,   \* the next uuid4 of create_player
    next_match_id,    \* the next uuid4 of record_match
    requests,         \* how many requests have changed the database
    last,             \* the last request and its answer
    erased,           \* history: the participation rows delete_player removed
    committed,        \* the database as of the connection's last commit
    threads           \* the requests being served: their position and locals

vars == <<players, matches, participations, k_factor, next_player_id,
          next_match_id, requests, last, erased, committed, threads>>

\* the database the connection reads and writes
Db == [players |-> players, matches |-> matches,
       participations |-> participations, k_factor |-> k_factor]

DefaultRating == F(1200)          \* rating REAL DEFAULT 1200.0
DefaultK      == F(32)            \* INSERT OR IGNORE ... ("k_factor", "32")

Without(f, id) == [x \in DOMAIN f \ {id} |-> f[x]]

Returned(db)  == [ok |-> TRUE, db |-> db, error |-> ""]
Raised(db, e) == [ok |-> FALSE, db |-> db, error |-> e]

IntegrityError == "FOREIGN KEY constraint failed"
StorageError   == "sqlite3.OperationalError"

\* One SQL statement of a write transaction, run on the connection's view
\* db.  PRAGMA foreign_keys = ON (init_db): an insert whose parent row is
\* missing, or a delete of a row that still has child rows, raises
\* sqlite3.IntegrityError and changes nothing; an UPDATE that matches no
\* row changes nothing and raises nothing.
Execute(db, st) ==
    CASE st.sql = "INSERT INTO matches" ->
            IF st.winner_id \notin DOMAIN db.players \/ st.id \in DOMAIN db.matches
            THEN Raised(db, IntegrityError)
            ELSE Returned([db EXCEPT !.matches = @ @@ (st.id :>
                     [date |-> st.date, k_factor_used |-> st.k_used,
                      winner_id |-> st.winner_id])])
      [] st.sql = "UPDATE players SET rating = ?, games_played + 1" ->
            IF st.id \notin DOMAIN db.players THEN Returned(db)
            ELSE Returned([db EXCEPT !.players[st.id] =
                     [@ EXCEPT !.rating = st.rating,
                               !.games_played = @ + 1]])
      [] st.sql = "INSERT INTO participations" ->
            IF st.row.match_id \notin DOMAIN db.matches
               \/ st.row.player_id \notin DOMAIN db.players
            THEN Raised(db, IntegrityError)
            ELSE Returned([db EXCEPT !.participations = Append(@, st.row)])
      [] st.sql = "UPDATE players SET rating - ?, games_played - 1" ->
            IF st.id \notin DOMAIN db.players THEN Returned(db)
            ELSE Returned([db EXCEPT !.players[st.id] =
                     [@ EXCEPT !.rating = FSub[@, st.delta],
                               !.games_played = @ - 1]])
      [] st.sql = "DELETE FROM participations WHERE match_id" ->
            Returned([db EXCEPT !.participations =
                     SelectSeq(@, LAMBDA r : r.match_id # st.id)])
      [] st.sql = "DELETE FROM participations WHERE player_id" ->
            Returned([db EXCEPT !.participations =
                     SelectSeq(@, LAMBDA r : r.player_id # st.id)])
      [] st.sql = "DELETE FROM matches WHERE id" ->
            IF \E i \in 1..Len(db.participations) :
                   db.participations[i].match_id = st.id
            THEN Raised(db, IntegrityError)
            ELSE Returned([db EXCEPT !.matches = Without(@, st.id)])
      [] st.sql = "DELETE FROM matches WHERE winner_id" ->
            IF \E i \in 1..Len(db.participations) :
                   /\ db.participations[i].match_id \in DOMAIN db.matches
                   /\ db.matches[db.participations[i].match_id].winner_id = st.id
            THEN Raised(db, IntegrityError)
            ELSE Returned([db EXCEPT !.matches =
                     [m \in {x \in DOMAIN @ : @[x].winner_id # st.id} |-> @[m]]])
      [] st.sql = "DELETE FROM players WHERE id" ->
            IF \/ \E m \in DOMAIN db.matches : db.matches[m].winner_id = st.id
               \/ \E i \in 1..Len(db.participations) :
                      db.participations[i].player_id = st.id
            THEN Raised(db, IntegrityError)
            ELSE Returned([db EXCEPT !.players = Without(@, st.id)])
      [] st.sql = "REPLACE INTO system_settings" ->
            Returned([db EXCEPT !.k_factor = st.k])

\* the statements of a transaction in order; statement number fault (0:
\* none) raises for a reason of the storage's own before it takes effect
RECURSIVE RunFrom(_, _, _, _)
RunFrom(db, stmts, i, fault) ==
    IF i > Len(stmts) THEN Returned(db)
    ELSE IF i = fault THEN Raised(db, StorageError)
    ELSE LET r == Execute(db, stmts[i])
         IN  IF r.ok THEN RunFrom(r.db, stmts, i + 1, fault) ELSE r

\* self.conn.commit() and self.conn.rollback(): durable is the database
\* as of the connection's last commit, work the connection's view
Commit(durable, work) == work
\* (a connection whose rollback() undoes nothing)
Rollback_nothing(durable, work) == work
Rollback(durable, work) == durable

\* try: <stmts>; self.conn.commit()  except: self.conn.rollback(); raise
Transaction(db, stmts, fault) ==
    LET r == RunFrom(db, stmts, 1, fault)
    IN  IF r.ok THEN Returned(Commit(db, r.db))
        ELSE Raised(Rollback(db, r.db), r.error)

\* Database.get_k_factor
get_k_factor(db) == db.k_factor

\* Database.set_k_factor: str(k) is stored and float(value) read back,
\* which returns k itself (repr of a float round-trips)
set_k_factor(db, k) == [db EXCEPT !.k_factor = k]

\* Database.get_player: the row, or None ([found |-> FALSE])
get_player(db, player_id) ==
    IF player_id \in DOMAIN db.players
    THEN [found |-> TRUE, id |-> player_id,
          rating |-> db.players[player_id].rating,
          games_played |-> db.players[player_id].games_played]
    ELSE [found |-> FALSE]

\* Database.create_player: name is UNIQUE
create_player(db, new_id, name) ==
    IF \E p \in DOMAIN db.players : db.players[p].name = name
    THEN Raised(db, "Player name already exists")
    ELSE Returned([db EXCEPT !.players = @ @@ (new_id :>
                     [name |-> name, rating |-> DefaultRating,
                      games_played |-> 0])])

\* the elements of a set of identifiers in ascending (rowid) order
RECURSIVE Ascending(_)
Ascending(S) ==
    IF S = {} THEN <<>>
    ELSE LET m == CHOOSE x \in S : \A y \in S : x <= y
         IN  <<m>> \o Ascending(S \ {m})

Map(s, Op(_)) == [i \in 1..Len(s) |-> Op(s[i])]

RECURSIVE Flatten(_)
Flatten(ss) == IF ss = <<>> THEN <<>> ELSE Head(ss) \o Flatten(Tail(ss))

\* a delete_player without its step 5, which leaves the player's row
delete_player_stmts_without_player(db, player_id) ==
    LET matches_won ==
            Ascending({m \in DOMAIN db.matches : db.matches[m].winner_id = player_id})
    IN  Map(matches_won, LAMBDA mid :
                [sql |-> "DELETE FROM participations WHERE match_id", id |-> mid])
        \o << [sql |-> "DELETE FROM matches WHERE winner_id", id |-> player_id],
              [sql |-> "DELETE FROM participations WHERE player_id", id |-> player_id] >>

\* a delete_player that reverses the matches the player won, as delete_match
\* reverses one, before it deletes them
delete_player_stmts_reversing(db, player_id) ==
    LET won(r) == /\ r.match_id \in DOMAIN db.matches
                  /\ db.matches[r.match_id].winner_id = player_id
        matches_won ==
            Ascending({m \in DOMAIN db.matches : db.matches[m].winner_id = player_id})
    IN  Map(SelectSeq(db.participations, won), LAMBDA p :
                [sql |-> "UPDATE players SET rating - ?, games_played - 1",
                 id |-> p.player_id, delta |-> p.rating_delta])
        \o Map(matches_won, LAMBDA mid :
                [sql |-> "DELETE FROM participations WHERE match_id", id |-> mid])
        \o << [sql |-> "DELETE FROM matches WHERE winner_id", id |-> player_id],
              [sql |-> "DELETE FROM participations WHERE player_id", id |-> player_id],
              [sql |-> "DELETE FROM players WHERE id", id |-> player_id] >>

\* Database.delete_player
delete_player_stmts(db, player_id) ==
    LET matches_won ==
            Ascending({m \in DOMAIN db.matches : db.matches[m].winner_id = player_id})
    IN  Map(matches_won, LAMBDA mid :
                [sql |-> "DELETE FROM participations WHERE match_id", id |-> mid])
        \o << [sql |-> "DELETE FROM matches WHERE winner_id", id |-> player_id],
              [sql |-> "DELETE FROM participations WHERE player_id", id |-> player_id],
              [sql |-> "DELETE FROM players WHERE id", id |-> player_id] >>

delete_player(db, player_id, fault) ==
    Transaction(db, delete_player_stmts(db, player_id), fault)

\* a delete_match that reverses the winner's row only
delete_match_stmts_winner_only(db, match_id) ==
    LET parts == SelectSeq(db.participations,
                           LAMBDA r : r.match_id = match_id /\ r.is_winner = 1)
    IN  Map(parts, LAMBDA p :
                [sql |-> "UPDATE players SET rating - ?, games_played - 1",
                 id |-> p.player_id, delta |-> p.rating_delta])
        \o << [sql |-> "DELETE FROM participations WHERE match_id", id |-> match_id],
              [sql |-> "DELETE FROM matches WHERE id", id |-> match_id] >>

\* Database.delete_match
delete_match_stmts(db, match_id) ==
    LET parts == SelectSeq(db.participations, LAMBDA r : r.match_id = match_id)
    IN  Map(parts, LAMBDA p :
                [sql |-> "UPDATE players SET rating - ?, games_played - 1",
                 id |-> p.player_id, delta |-> p.rating_delta])
        \o << [sql |-> "DELETE FROM participations WHERE match_id", id |-> match_id],
              [sql |-> "DELETE FROM matches WHERE id", id |-> match_id] >>

\* a delete_match without `if not parts: raise`
delete_match_unchecked(db, match_id, fault) ==
    Transaction(db, delete_match_stmts(db, match_id), fault)

delete_match(db, match_id, fault) ==
    IF SelectSeq(db.participations, LAMBDA r : r.match_id = match_id) = <<>>
    THEN Raised(Rollback(db, db), "Match not found")
    ELSE Transaction(db, delete_match_stmts(db, match_id), fault)

\* a record_match that stores the default K-factor, not the setting
record_match_stmts_default_k(db, match_id, date, winner_id, winner_delta, winner_new_rating, losers_data) ==
    LET k_used == DefaultK
        winner_old_rating == FSub[winner_new_rating, winner_delta]
    IN  << [sql |-> "INSERT INTO matches", id |-> match_id, date |-> date,
            k_used |-> k_used, winner_id |-> winner_id],
           [sql |-> "UPDATE players SET rating = ?, games_played + 1",
            id |-> winner_id, rating |-> winner_new_rating],
           [sql |-> "INSERT INTO participations",
            row |-> [match_id |-> match_id, player_id |-> winner_id,
                     is_winner |-> 1, rating_before |-> winner_old_rating,
                     rating_after |-> winner_new_rating,
                     rating_delta |-> winner_delta]] >>
        \o Flatten(Map(losers_data, LAMBDA l_data :
            << [sql |-> "UPDATE players SET rating = ?, games_played + 1",
                id |-> l_data.id, rating |-> l_data.new_rating],
               [sql |-> "INSERT INTO participations",
                row |-> [match_id |-> match_id, player_id |-> l_data.id,
                         is_winner |-> 0, rating_before |-> l_data.old_rating,
                         rating_after |-> l_data.new_rating,
                         rating_delta |-> l_data.delta]] >>))

\* Database.record_match (its parameter loser_ids is not used by the code)
record_match_stmts(db, match_id, date, winner_id, winner_delta, winner_new_rating, losers_data) ==
    LET k_used == get_k_factor(db)
        winner_old_rating == FSub[winner_new_rating, winner_delta]
    IN  << [sql |-> "INSERT INTO matches", id |-> match_id, date |-> date,
            k_used |-> k_used, winner_id |-> winner_id],
           [sql |-> "UPDATE players SET rating = ?, games_played + 1",
            id |-> winner_id, rating |-> winner_new_rating],
           [sql |-> "INSERT INTO participations",
            row |-> [match_id |-> match_id, player_id |-> winner_id,
                     is_winner |-> 1, rating_before |-> winner_old_rating,
                     rating_after |-> winner_new_rating,
                     rating_delta |-> winner_delta]] >>
        \o Flatten(Map(losers_data, LAMBDA l_data :
            << [sql |-> "UPDATE players SET rating = ?, games_played + 1",
                id |-> l_data.id, rating |-> l_data.new_rating],
               [sql |-> "INSERT INTO participations",
                row |-> [match_id |-> match_id, player_id |-> l_data.id,
                         is_winner |-> 0, rating_before |-> l_data.old_rating,
                         rating_after |-> l_data.new_rating,
                         rating_delta |-> l_data.delta]] >>))

record_match(db, match_id, date, winner_id, winner_delta, winner_new_rating, losers_data, fault) ==
    Transaction(db, record_match_stmts(db, match_id, date, winner_id,
                    winner_delta, winner_new_rating, losers_data), fault)

\* a sort that leaves the rows as they are
SortByRatingDesc_unsorted(rows) == rows

\* list.sort(key=lambda x: x['rating'], reverse=True): descending by
\* rating, rows of equal rating in the order they had
RECURSIVE SortByRatingDesc(_)
SortByRatingDesc(rows) ==
    IF rows = <<>> THEN <<>>
    ELSE LET x == rows[Len(rows)]
             sorted == SortByRatingDesc(SubSeq(rows, 1, Len(rows) - 1))
         IN  SelectSeq(sorted, LAMBDA y : y.rating >= x.rating)
             \o <<x>>
             \o SelectSeq(sorted, LAMBDA y : y.rating < x.rating)

Max2(a, b) == IF a >= b THEN a ELSE b
Min2(a, b) == IF a <= b THEN a ELSE b

\* the float literal 0.20
Fifth == FDiv[One, F(5)]

\* int(x) of a float x >= 0
Trunc(x) == x \div One

\* a threshold without its cap of 15
leaderboard_threshold_uncapped(max_games) ==
    Max2(5, Trunc(FMul[F(max_games), Fifth]))

\* Database.get_all_players, lines 183-187: the threshold for the largest
\* games_played
leaderboard_threshold(max_games) ==
    LET calculated_threshold == Max2(5, Trunc(FMul[F(max_games), Fifth]))
    IN  Min2(15, calculated_threshold)

\* Database.get_all_players
get_all_players(db) ==
    LET ids == Ascending(DOMAIN db.players)
        rows == [i \in 1..Len(ids) |->
                    [id |-> ids[i], name |-> db.players[ids[i]].name,
                     rating |-> db.players[ids[i]].rating,
                     games_played |-> db.players[ids[i]].games_played]]
    IN  IF rows = <<>> THEN <<>>
        ELSE LET max_games == CHOOSE g \in {rows[i].games_played : i \in 1..Len(rows)} :
                                  \A i \in 1..Len(rows) : rows[i].games_played <= g
                 threshold == leaderboard_threshold(max_games)
                 flagged == [i \in 1..Len(rows) |->
                    [id |-> rows[i].id, name |-> rows[i].name,
                     rating |-> rows[i].rating,
                     games_played |-> rows[i].games_played,
                     is_ranked |-> rows[i].games_played >= threshold,
                     threshold |-> threshold]]
                 ranked == SelectSeq(flagged, LAMBDA r : r.is_ranked)
                 provisional == SelectSeq(flagged, LAMBDA r : ~r.is_ranked)
             IN  SortByRatingDesc(ranked) \o SortByRatingDesc(provisional)

\* the orders ORDER BY m.date DESC can return the rows in: the rows of one
\* date come in an order SQL leaves open
RECURSIVE DateDescOrders(_, _)
DateDescOrders(rows, left) ==
    IF left = {} THEN {<<>>}
    ELSE LET newest == {i \in left : \A j \in left : rows[j].date <= rows[i].date}
         IN  UNION {{<<rows[i]>> \o rest : rest \in DateDescOrders(rows, left \ {i})}
                    : i \in newest}

\* Database.get_player_history: the lists the query can return
get_player_history(db, player_id) ==
    LET parts == SelectSeq(db.participations, LAMBDA r :
                     r.player_id = player_id /\ r.match_id \in DOMAIN db.matches)
        rows == [i \in 1..Len(parts) |->
                    [match_id |-> parts[i].match_id,
                     date |-> db.matches[parts[i].match_id].date,
                     is_winner |-> parts[i].is_winner,
                     rating_delta |-> parts[i].rating_delta,
                     rating_after |-> parts[i].rating_after]]
    IN  DateDescOrders(rows, 1..Len(rows))

\* Database.get_matches_history: the lists the query can return.  The joins
\* are inner joins: a match is a row of the result when its winner is a
\* stored player and at least one participation with is_winner = 0, of a
\* stored player, belongs to it.  (losers_names: the names in rowid order)
get_matches_history(db) ==
    LET loser_rows(m) == SelectSeq(db.participations, LAMBDA r :
                             /\ r.match_id = m
                             /\ r.is_winner = 0
                             /\ r.player_id \in DOMAIN db.players)
        ids == Ascending({m \in DOMAIN db.matches :
                             /\ db.matches[m].winner_id \in DOMAIN db.players
                             /\ loser_rows(m) # <<>>})
        rows == [i \in 1..Len(ids) |->
                    [id |-> ids[i],
                     date |-> db.matches[ids[i]].date,
                     winner_name |-> db.players[db.matches[ids[i]].winner_id].name,
                     losers_names |-> [j \in 1..Len(loser_rows(ids[i])) |->
                         db.players[loser_rows(ids[i])[j].player_id].name]]]
    IN  DateDescOrders(rows, 1..Len(rows))

\* ------------------------------------------------------------ flask_app.py
\* what a request leaves behind: the database and the answer
\* (valid: the request named a winner, a date and at least one loser, all of
\* them stored players; only a create_match request can fail to)
AnswerRequest(op, valid, status, error, id, db) ==
    /\ last' = [op |-> op, valid |-> valid, status |-> status, error |-> error,
                id |-> id, changed |-> db # Db, body |-> <<>>]
    /\ requests' = IF db # Db THEN requests + 1 ELSE requests
    /\ players' = db.players
    /\ matches' = db.matches
    /\ participations' = db.participations
    /\ k_factor' = db.k_factor
    /\ erased' = IF op = "delete_player"
                 THEN erased \o SelectSeq(participations, LAMBDA row :
                          \A i \in 1..Len(db.participations) :
                              db.participations[i] # row)
                 ELSE erased
    /\ committed' = db
    /\ UNCHANGED threads

Answer(op, status, error, id, db) == AnswerRequest(op, TRUE, status, error, id, db)

\* what a GET request leaves behind: its answer
AnswerBody(op, status, error, id, body) ==
    /\ last' = [op |-> op, valid |-> TRUE, status |-> status, error |-> error,
                id |-> id, changed |-> FALSE, body |-> body]
    /\ UNCHANGED <<players, matches, participations, k_factor, requests, erased,
                   next_player_id, next_match_id, committed, threads>>

\* The requests are served one after the other.  The model follows every
\* sequence of at most MaxRequests requests that change the database, and
\* one more request after each; a request that changed nothing is followed
\* no further: whatever can come after it can come after the state before it.
Serving == last.changed /\ requests < MaxRequests

\* a GET request changes nothing: one is served after every request that
\* changed the database, the last of them too
Reading == last.changed

\* a request's loser_ids: lists of at most MaxLosers identifiers; the empty
\* list also stands for a request without loser_ids (None): `not loser_ids`
\* holds of both
RECURSIVE ListsUpTo(_, _)
ListsUpTo(S, n) ==
    IF n = 0 THEN {<<>>}
    ELSE LET shorter == ListsUpTo(S, n - 1)
         IN  shorter \cup {Append(l, x) : l \in shorter, x \in S}

LoserLists == ListsUpTo(PlayerIds, MaxLosers)

\* Names are only compared for equality: a request's name is one in use or
\* the least one that is not
UsedNames == {players[p].name : p \in DOMAIN players}
RequestNames ==
    UsedNames \cup {n \in Names : n \notin UsedNames
                                  /\ \A m \in Names \ UsedNames : n <= m}

\* POST /api/player
CreatePlayer ==
    /\ Serving
    /\ UNCHANGED next_match_id
    /\ \/ /\ Answer("create_player", "401", "Unauthorized", 0, Db)
          /\ UNCHANGED next_player_id
       \/ /\ Answer("create_player", "400", "Name required", 0, Db)
          /\ UNCHANGED next_player_id
       \/ /\ Answer("create_player", "500", StorageError, 0, Db)
          /\ UNCHANGED next_player_id
       \/ \E name \in RequestNames :
            /\ next_player_id <= MaxPlayerIds
            /\ LET r == create_player(Db, next_player_id, name)
               IN  IF r.ok
                   THEN /\ Answer("create_player", "201", "", next_player_id, r.db)
                        /\ next_player_id' = next_player_id + 1
                   ELSE /\ Answer("create_player", "409", r.error, 0, r.db)
                        /\ UNCHANGED next_player_id

\* DELETE /api/player/<id>
DeletePlayer ==
    /\ Serving
    /\ UNCHANGED <<next_player_id, next_match_id>>
    /\ \/ Answer("delete_player", "401", "Unauthorized", 0, Db)
       \/ \E id \in PlayerIds :
          \E fault \in 0..Len(delete_player_stmts(Db, id)) :
          \E r \in {delete_player(Db, id, fault)} :
            Answer("delete_player", IF r.ok THEN "200" ELSE "500", r.error, id, r.db)

\* POST /api/settings
SetKFactor ==
    /\ Serving
    /\ UNCHANGED <<next_player_id, next_match_id>>
    /\ \/ Answer("set_k_factor", "401", "Unauthorized", 0, Db)
       \/ Answer("set_k_factor", "400", "Missing k_factor", 0, Db)
       \/ Answer("set_k_factor", "500", StorageError, 0, Db)
       \/ \E k \in KValues :
            Answer("set_k_factor", "200", "", 0, set_k_factor(Db, F(k)))

\* what a match request has to be: a winner, a date and at least one loser,
\* winner and losers stored players
well_formed(db, winner_id, loser_ids, date) ==
    /\ winner_id \in DOMAIN db.players
    /\ date # Missing
    /\ loser_ids # <<>>
    /\ \A i \in 1..Len(loser_ids) : loser_ids[i] \in DOMAIN db.players

\* create_match without `not loser_ids` in its first test
create_match_check_some_fields(db, winner_id, loser_ids, date) ==
    IF winner_id = Missing \/ date = Missing
    THEN [status |-> "400", error |-> "Missing fields", id |-> 0]
    ELSE IF ~get_player(db, winner_id).found
    THEN [status |-> "404", error |-> "Winner not found", id |-> winner_id]
    ELSE IF \E i \in 1..Len(loser_ids) : ~get_player(db, loser_ids[i]).found
    THEN [status |-> "404", error |-> "Loser not found", id |-> 0]
    ELSE [status |-> "200", error |-> "", id |-> 0]

\* POST /api/match, lines 117-132: the answer of a request that is turned
\* down, or "200" for one that goes on to be recorded
create_match_check(db, winner_id, loser_ids, date) ==
    IF winner_id = Missing \/ loser_ids = <<>> \/ date = Missing
    THEN [status |-> "400", error |-> "Missing fields", id |-> 0]
    ELSE IF ~get_player(db, winner_id).found
    THEN [status |-> "404", error |-> "Winner not found", id |-> winner_id]
    ELSE IF \E i \in 1..Len(loser_ids) : ~get_player(db, loser_ids[i]).found
    THEN [status |-> "404", error |-> "Loser not found",
          id |-> loser_ids[CHOOSE i \in 1..Len(loser_ids) :
                     /\ ~get_player(db, loser_ids[i]).found
                     /\ \A j \in 1..(i - 1) : get_player(db, loser_ids[j]).found]]
    ELSE [status |-> "200", error |-> "", id |-> 0]

\* a create_match that takes every loser's old rating to be the default
match_update_default_before(winner, losers, k) ==
    LET winner_rating == winner.rating
        loser_ratings == [i \in 1..Len(losers) |-> losers[i].rating]
    IN  LET deltas == calculate_deltas(winner_rating, loser_ratings, k)
        IN  [winner_delta |-> deltas[1],
             winner_new_rating |-> FAdd[winner_rating, deltas[1]],
             losers_data |-> [i \in 1..Len(losers) |->
                [id |-> losers[i].id, delta |-> deltas[2][i],
                 new_rating |-> FAdd[losers[i].rating, deltas[2][i]],
                 old_rating |-> DefaultRating]]]

\* create_match, lines 134-148: the arguments of record_match from the rows
\* winner and losers read before
match_update(winner, losers, k) ==
    LET winner_rating == winner.rating
        loser_ratings == [i \in 1..Len(losers) |-> losers[i].rating]
    IN  LET deltas == calculate_deltas(winner_rating, loser_ratings, k)
        IN  [winner_delta |-> deltas[1],
             winner_new_rating |-> FAdd[winner_rating, deltas[1]],
             losers_data |-> [i \in 1..Len(losers) |->
                [id |-> losers[i].id, delta |-> deltas[2][i],
                 new_rating |-> FAdd[losers[i].rating, deltas[2][i]],
                 old_rating |-> losers[i].rating]]]

\* the rows create_match reads for a request it does not turn down
rows_read(db, winner_id, loser_ids) ==
    [winner |-> get_player(db, winner_id),
     losers |-> [i \in 1..Len(loser_ids) |-> get_player(db, loser_ids[i])]]

\* the number of write statements of record_match for n losers
RecordWrites(n) == 3 + 2 * n

\* a date, where which one it is does not matter
AnyDate == CHOOSE d \in Dates : TRUE

\* POST /api/match
CreateMatch ==
    /\ Serving
    /\ UNCHANGED next_player_id
    /\ \/ /\ Answer("create_match", "401", "Unauthorized", 0, Db)
          /\ UNCHANGED next_match_id
       \/ \E winner_id \in PlayerIds \cup {Missing}, loser_ids \in LoserLists,
             date \in Dates \cup {Missing} :
          \E c \in {create_match_check(Db, winner_id, loser_ids, date)} :
            /\ c.status # "200"
            /\ AnswerRequest("create_match",
                             well_formed(Db, winner_id, loser_ids, date),
                             c.status, c.error, c.id, Db)
            /\ UNCHANGED next_match_id
       \/ \E winner_id \in PlayerIds, loser_ids \in LoserLists :
            /\ create_match_check(Db, winner_id, loser_ids, AnyDate).status = "200"
            /\ next_match_id <= MaxMatchIds
            /\ \E read \in {rows_read(Db, winner_id, loser_ids)} :
               \E u \in {match_update(read.winner, read.losers, get_k_factor(Db))} :
               \E date \in Dates, fault \in 0..RecordWrites(Len(loser_ids)) :
                 /\ fault = 0 \/ date = AnyDate
                 /\ \E r \in {record_match(Db, next_match_id, date, winner_id,
                                  u.winner_delta, u.winner_new_rating,
                                  u.losers_data, fault)} :
                      IF r.ok
                      THEN /\ AnswerRequest("create_match",
                                  well_formed(Db, winner_id, loser_ids, date),
                                  "200", "", next_match_id, r.db)
                           /\ next_match_id' = next_match_id + 1
                      ELSE /\ AnswerRequest("create_match",
                                  well_formed(Db, winner_id, loser_ids, date),
                                  "500", r.error, 0, r.db)
                           /\ UNCHANGED next_match_id

\* Database.delete_match, called on the ledger (no route leads to it)
DeleteMatch ==
    /\ Serving
    /\ UNCHANGED <<next_player_id, next_match_id>>
    /\ \E match_id \in MatchIds :
       \E fault \in 0..Len(delete_match_stmts(Db, match_id)) :
       \E r \in {delete_match(Db, match_id, fault)} :
         Answer("delete_match", IF r.ok THEN "returned" ELSE "raised",
                r.error, match_id, r.db)

\* Database.record_match, called on the ledger by a caller that, unlike
\* create_match, did not look its players up first: some identifier is of no
\* stored player (whose rating the caller takes to be the default)
RecordMatch ==
    /\ Serving
    /\ UNCHANGED next_player_id
    /\ \E winner_id \in PlayerIds, loser_ids \in LoserLists \ {<<>>}, date \in Dates :
        /\ create_match_check(Db, winner_id, loser_ids, date).status = "404"
        /\ next_match_id <= MaxMatchIds
        /\ LET Row(id) == IF id \in DOMAIN players THEN get_player(Db, id)
                          ELSE [found |-> FALSE, id |-> id,
                                rating |-> DefaultRating, games_played |-> 0]
           IN  \E u \in {match_update(Row(winner_id),
                             [i \in 1..Len(loser_ids) |-> Row(loser_ids[i])],
                             get_k_factor(Db))} :
               \E r \in {record_match(Db, next_match_id, date, winner_id,
                             u.winner_delta, u.winner_new_rating, u.losers_data, 0)} :
                 /\ Answer("record_match", IF r.ok THEN "returned" ELSE "raised",
                           r.error, IF r.ok THEN next_match_id ELSE 0, r.db)
                 /\ next_match_id' = IF r.ok THEN next_match_id + 1 ELSE next_match_id

\* GET /api/leaderboard
GetLeaderboard ==
    /\ Reading
    /\ AnswerBody("get_all_players", "200", "", 0, get_all_players(Db))

\* round(x, 1): the float nearest to x rounded to one decimal
Round1(x) == Sgn[x] * FlQ[RoundHalfEven[10 * Abs[x], One] * One, 10]

\* get_player, lines 42-51: <<streak_type, streak_count>>
RECURSIVE streak_from(_, _, _, _)
streak_from(history, i, streak_type, streak_count) ==
    IF i > Len(history) THEN <<streak_type, streak_count>>
    ELSE LET is_win == history[i].is_winner = 1
         IN  IF (streak_type = "win" /\ is_win) \/ (streak_type = "loss" /\ ~is_win)
             THEN streak_from(history, i + 1, streak_type, streak_count + 1)
             ELSE <<streak_type, streak_count>>

\* a streak that counts every entry of the first entry's outcome
streak_whole_history(history) ==
    IF history = <<>> THEN <<"null", 0>>
    ELSE <<IF history[1].is_winner = 1 THEN "win" ELSE "loss",
           Len(SelectSeq(history, LAMBDA match :
                   match.is_winner = history[1].is_winner))>>

streak(history) ==
    IF history = <<>> THEN <<"null", 0>>
    ELSE streak_from(history, 1,
                     IF history[1].is_winner = 1 THEN "win" ELSE "loss", 0)

\* get_player, lines 53-62: <<min_rating, max_rating>>
rating_extremes(current_rating, history) ==
    IF history = <<>> THEN <<current_rating, current_rating>>
    ELSE LET oldest_match == history[Len(history)]
             initial_rating == FSub[oldest_match.rating_after, oldest_match.rating_delta]
             all_ratings == {history[i].rating_after : i \in 1..Len(history)}
                            \cup {initial_rating}
         IN  <<CHOOSE x \in all_ratings : \A y \in all_ratings : x <= y,
               CHOOSE x \in all_ratings : \A y \in all_ratings : x >= y>>

\* get_player, lines 31-69: the body of the answer for a stored player and
\* the history the query returned.  min_rating and max_rating are the
\* handler's variables, stats what it sends of them.
player_body(db, id, history) ==
    LET player == get_player(db, id)
        all_players == get_all_players(db)
        rank == CHOOSE i \in 1..Len(all_players) : all_players[i].id = id
        total_games == Len(history)
        wins == Len(SelectSeq(history, LAMBDA match : match.is_winner = 1))
        win_rate == IF total_games > 0
                    THEN FMul[FDiv[F(wins), F(total_games)], F(100)] ELSE 0
        s == streak(history)
        extremes == rating_extremes(player.rating, history)
    IN  [player |-> player, history |-> history,
         total_games |-> total_games,
         min_rating |-> extremes[1], max_rating |-> extremes[2],
         stats |-> [rank |-> rank, wins |-> wins, win_rate |-> Round1(win_rate),
                    streak_type |-> s[1], streak_count |-> s[2],
                    max_rating |-> Round1(extremes[2]),
                    min_rating |-> Round1(extremes[1])]]

\* GET /api/player/<id>
GetPlayer ==
    /\ Reading
    /\ \E id \in PlayerIds :
         IF ~get_player(Db, id).found
         THEN AnswerBody("get_player", "404", "Not found", id, <<>>)
         ELSE \E history \in get_player_history(Db, id) :
                AnswerBody("get_player", "200", "", id, player_body(Db, id, history))

\* GET /api/matches
GetMatches ==
    /\ Reading
    /\ \E body \in get_matches_history(Db) :
         AnswerBody("get_matches_history", "200", "", 0, body)

Init == /\ players = <<>>
        /\ matches = <<>>
        /\ participations = <<>>
        /\ k_factor = DefaultK
        /\ next_player_id = 1
        /\ next_match_id = 1
        /\ requests = 0
        /\ last = [op |-> "init_db", valid |-> TRUE, status |-> "returned", error |-> "", id |-> 0,
                   changed |-> TRUE, body |-> <<>>]
        /\ erased = <<>>
        /\ committed = Db
        /\ threads = <<>>

Next == \/ CreatePlayer
        \/ DeletePlayer
        \/ SetKFactor
        \/ CreateMatch
        \/ DeleteMatch
        \/ RecordMatch
        \/ GetLeaderboard
        \/ GetPlayer
        \/ GetMatches

Spec == Init /\ [][Next]_vars

\* The leaderboard as a function of the players table: every table of at
\* most MaxPlayerIds players whose games_played and ratings are among these
GamesValues  == {0, 5, 6, 14, 30, 74, 75, 100}
RatingValues == {F(1184), F(1200)}

InitLeaderboard ==
    /\ \E n \in 0..MaxPlayerIds :
       \E g \in [1..n -> GamesValues], r \in [1..n -> RatingValues] :
         players = [i \in 1..n |->
                       [name |-> i, rating |-> r[i], games_played |-> g[i]]]
    /\ matches = <<>>
    /\ participations = <<>>
    /\ k_factor = DefaultK
    /\ next_player_id = MaxPlayerIds + 1
    /\ next_match_id = 1
    /\ requests = 0
    /\ last = [op |-> "init_db", valid |-> TRUE, status |-> "returned",
               error |-> "", id |-> 0, changed |-> TRUE, body |-> <<>>]
    /\ erased = <<>>
    /\ committed = Db
    /\ threads = <<>>

SpecLeaderboard == InitLeaderboard /\ [][GetLeaderboard]_vars

\* ------------------------------------------------- requests served at once
\* db = Database() is one object of the module, and its one connection is
\* opened with check_same_thread=False: the threads that serve requests at
\* the same time all run their statements on this connection.  A statement
\* reads the connection's view, uncommitted writes of every thread included;
\* commit() makes the whole view durable and rollback() puts the whole view
\* back to the last commit, whichever thread wrote.  Each cursor.execute is
\* one step (the connection serialises them); what a thread does between
\* two of them touches its own locals only.
MaxThreads == 2        \* requests served at the same time

Threads == 1..MaxThreads

\* a thread that serves no request
Idle == [op |-> "idle", pc |-> "idle", winner_id |-> 0, loser_ids |-> <<>>,
         id |-> 0, k |-> 0, winner |-> [found |-> FALSE], losers |-> <<>>,
         stmts |-> <<>>, status |-> "", seen |-> <<>>, racing |-> {},
         isolated |-> TRUE]

\* the connection's view becomes db
SetView(db) ==
    /\ players' = db.players
    /\ matches' = db.matches
    /\ participations' = db.participations
    /\ k_factor' = db.k_factor

\* the threads between their first write statement and their commit
Writing == {u \in Threads : threads[u].pc \in {"write", "commit"}}

\* the create_match requests that have not yet drawn their match_id
Drawing == {u \in Threads : threads[u].pc \in
                {"read_winner", "read_loser", "read_k", "record"}}

\* what the read of thread th returns on the database db
ResultsOf(th, db) ==
    IF th.op = "get_all_players" THEN {get_all_players(db)}
    ELSE get_player_history(db, th.id)

\* a request arrives and a thread takes it (a create_match whose fields are
\* missing, and a request without the admin key, run no statement)
Begin(t) ==
    /\ threads[t].pc = "idle"
    /\ \/ \E winner_id \in PlayerIds, loser_ids \in LoserLists \ {<<>>} :
            /\ next_match_id + Cardinality(Drawing) <= MaxMatchIds
            /\ threads' = [threads EXCEPT ![t] =
                  [Idle EXCEPT !.op = "create_match", !.pc = "read_winner",
                               !.winner_id = winner_id, !.loser_ids = loser_ids]]
       \/ \E match_id \in MatchIds :
            threads' = [threads EXCEPT ![t] =
                  [Idle EXCEPT !.op = "delete_match", !.pc = "select",
                               !.id = match_id]]
       \/ \E id \in PlayerIds :
            threads' = [threads EXCEPT ![t] =
                  [Idle EXCEPT !.op = "delete_player", !.pc = "select", !.id = id]]
       \/ \E k \in KValues :
            threads' = [threads EXCEPT ![t] =
                  [Idle EXCEPT !.op = "set_k_factor", !.pc = "write",
                               !.stmts = <<[sql |-> "REPLACE INTO system_settings",
                                            k |-> F(k)]>>]]
       \/ threads' = [threads EXCEPT ![t] =
                  [Idle EXCEPT !.op = "get_all_players", !.pc = "read"]]
       \/ \E id \in PlayerIds :
            threads' = [threads EXCEPT ![t] =
                  [Idle EXCEPT !.op = "get_player_history", !.pc = "read", !.id = id]]
    /\ UNCHANGED <<players, matches, participations, k_factor, next_player_id,
                   next_match_id, requests, last, erased, committed>>

\* create_match, lines 125-126: winner = db.get_player(winner_id)
ReadWinner(t) ==
    /\ threads[t].pc = "read_winner"
    /\ \E winner \in {get_player(Db, threads[t].winner_id)} :
         threads' = [threads EXCEPT ![t] =
            IF winner.found
            THEN [@ EXCEPT !.winner = winner, !.pc = "read_loser"]
            ELSE [@ EXCEPT !.pc = "done", !.status = "404"]]
    /\ UNCHANGED <<players, matches, participations, k_factor, next_player_id,
                   next_match_id, requests, last, erased, committed>>

\* create_match, lines 129-132: one turn of the loop over loser_ids
ReadLoser(t) ==
    /\ threads[t].pc = "read_loser"
    /\ \E l \in {get_player(Db, threads[t].loser_ids[Len(threads[t].losers) + 1])} :
         threads' = [threads EXCEPT ![t] =
            IF ~l.found
            THEN [@ EXCEPT !.pc = "done", !.status = "404"]
            ELSE [@ EXCEPT !.losers = Append(@, l),
                           !.pc = IF Len(threads[t].losers) + 1 = Len(threads[t].loser_ids)
                                  THEN "read_k" ELSE "read_loser"]]
    /\ UNCHANGED <<players, matches, participations, k_factor, next_player_id,
                   next_match_id, requests, last, erased, committed>>

\* create_match, line 136: k = db.get_k_factor()
ReadK(t) ==
    /\ threads[t].pc = "read_k"
    /\ threads' = [threads EXCEPT ![t] =
            [@ EXCEPT !.k = get_k_factor(Db), !.pc = "record"]]
    /\ UNCHANGED <<players, matches, participations, k_factor, next_player_id,
                   next_match_id, requests, last, erased, committed>>

\* create_match, lines 137-150, and record_match, lines 214-215: the
\* deltas from the rows and the k read before, then match_id and
\* k_used = self.get_k_factor()
RecordBegin(t) ==
    /\ threads[t].pc = "record"
    /\ \E u \in {match_update(threads[t].winner, threads[t].losers, threads[t].k)} :
         threads' = [threads EXCEPT ![t] =
            [@ EXCEPT !.id = next_match_id, !.pc = "write",
                      !.stmts = record_match_stmts(Db, next_match_id, AnyDate,
                                    threads[t].winner_id, u.winner_delta,
                                    u.winner_new_rating, u.losers_data)]]
    /\ next_match_id' = next_match_id + 1
    /\ UNCHANGED <<players, matches, participations, k_factor, next_player_id,
                   requests, last, erased, committed>>

\* delete_match, lines 140-144, and delete_player, lines 111-112: the SELECT
\* the statements to run are taken from
SelectRows(t) ==
    /\ threads[t].pc = "select"
    /\ UNCHANGED <<next_player_id, next_match_id, requests, last, erased, committed>>
    /\ IF /\ threads[t].op = "delete_match"
          /\ SelectSeq(participations, LAMBDA r : r.match_id = threads[t].id) = <<>>
       THEN /\ SetView(Rollback(committed, Db))
            /\ threads' = [threads EXCEPT ![t] =
                    [@ EXCEPT !.pc = "done", !.status = "raised"]]
       ELSE /\ UNCHANGED <<players, matches, participations, k_factor>>
            /\ threads' = [threads EXCEPT ![t] =
                    [@ EXCEPT !.pc = "write",
                              !.stmts = IF threads[t].op = "delete_match"
                                        THEN delete_match_stmts(Db, threads[t].id)
                                        ELSE delete_player_stmts(Db, threads[t].id)]]

\* the next cursor.execute of a write operation; one that raises is
\* followed by the rollback of the operation's except clause
Write(t) ==
    /\ threads[t].pc = "write"
    /\ UNCHANGED <<next_player_id, next_match_id, requests, last, erased, committed>>
    /\ \E r \in {Execute(Db, Head(threads[t].stmts))} :
         IF r.ok
         THEN /\ SetView(r.db)
              /\ threads' = [threads EXCEPT ![t] =
                      [@ EXCEPT !.stmts = Tail(@),
                                !.pc = IF Tail(threads[t].stmts) = <<>>
                                       THEN "commit" ELSE "write"]]
         ELSE /\ SetView(Rollback(committed, r.db))
              /\ threads' = [threads EXCEPT ![t] =
                      [@ EXCEPT !.pc = "done", !.status = "raised"]]

\* self.conn.commit() at the end of a write operation.  (history: a read is
\* isolated when what it returned is what the database committed before it
\* returns, or what the commit of an operation it ran alongside returns)
CommitWrites(t) ==
    /\ threads[t].pc = "commit"
    /\ committed' = Commit(committed, Db)
    /\ threads' = [u \in Threads |->
            IF u = t THEN [threads[u] EXCEPT !.pc = "done", !.status = "returned"]
            ELSE IF threads[u].pc = "done" /\ t \in threads[u].racing
            THEN [threads[u] EXCEPT !.isolated =
                      @ \/ threads[u].seen \in ResultsOf(threads[u], Db)]
            ELSE threads[u]]
    /\ UNCHANGED <<players, matches, participations, k_factor, next_player_id,
                   next_match_id, requests, last, erased>>

\* Database.get_all_players or Database.get_player_history: its SELECT
ReadRows(t) ==
    /\ threads[t].pc = "read"
    /\ \E seen \in ResultsOf(threads[t], Db) :
         threads' = [threads EXCEPT ![t] =
            [@ EXCEPT !.pc = "done", !.status = "returned", !.seen = seen,
                      !.racing = Writing,
                      !.isolated = seen \in ResultsOf(threads[t], committed)]]
    /\ UNCHANGED <<players, matches, participations, k_factor, next_player_id,
                   next_match_id, requests, last, erased, committed>>

\* the ledger the threads start on: two players, and either no match or the
\* match in which the first beat the second
TwoPlayers ==
    [players |-> (1 :> [name |-> 1, rating |-> DefaultRating, games_played |-> 0])
                 @@ (2 :> [name |-> 2, rating |-> DefaultRating, games_played |-> 0]),
     matches |-> <<>>, participations |-> <<>>, k_factor |-> DefaultK]

OneMatch ==
    LET read == rows_read(TwoPlayers, 1, <<2>>)
        u == match_update(read.winner, read.losers, get_k_factor(TwoPlayers))
    IN  record_match(TwoPlayers, 1, AnyDate, 1, u.winner_delta,
                     u.winner_new_rating, u.losers_data, 0).db

InitConcurrent ==
    /\ \E start \in {[db |-> TwoPlayers, next |-> 1], [db |-> OneMatch, next |-> 2]} :
         /\ players = start.db.players
         /\ matches = start.db.matches
         /\ participations = start.db.participations
         /\ k_factor = start.db.k_factor
         /\ committed = start.db
         /\ next_match_id = start.next
    /\ next_player_id = 3
    /\ requests = 0
    /\ last = [op |-> "init_db", valid |-> TRUE, status |-> "returned",
               error |-> "", id |-> 0, changed |-> TRUE, body |-> <<>>]
    /\ erased = <<>>
    /\ threads = [t \in Threads |-> Idle]

NextConcurrent ==
    \E t \in Threads :
        \/ Begin(t)
        \/ ReadWinner(t)
        \/ ReadLoser(t)
        \/ ReadK(t)
        \/ RecordBegin(t)
        \/ SelectRows(t)
        \/ Write(t)
        \/ CommitWrites(t)
        \/ ReadRows(t)

SpecConcurrent == InitConcurrent /\ [][NextConcurrent]_vars

\* ------------------------------------------------------------- properties
Ledger == <<players, matches, participations>>

\* the participation rows of a player, of a match
RowsOfPlayer(rows, p) == SelectSeq(rows, LAMBDA r : r.player_id = p)
RowsOfMatch(rows, m)  == SelectSeq(rows, LAMBDA r : r.match_id = m)

\* the sum of the rows' rating_delta, added up in floats in rowid order
RECURSIVE DeltaSum(_)
DeltaSum(rows) ==
    IF rows = <<>> THEN 0
    ELSE FAdd[DeltaSum(SubSeq(rows, 1, Len(rows) - 1)), rows[Len(rows)].rating_delta]

\* C1: round trip.  In every reachable state, for every match request that
\* create_match accepts, recording the match and then calling delete_match on
\* the new match's id leaves players (rating and games_played), matches and
\* participations as they were before the recording.
C1_RoundTrip ==
    \A winner_id \in PlayerIds, loser_ids \in LoserLists :
        create_match_check(Db, winner_id, loser_ids, AnyDate).status = "200"
        => \A read \in {rows_read(Db, winner_id, loser_ids)} :
           \A u \in {match_update(read.winner, read.losers, get_k_factor(Db))} :
           \A recorded \in {record_match(Db, next_match_id, AnyDate, winner_id,
                               u.winner_delta, u.winner_new_rating,
                               u.losers_data, 0)} :
           \A reversed \in {delete_match(recorded.db, next_match_id, 0)} :
               /\ recorded.ok
               /\ reversed.ok
               /\ reversed.db = Db

\* C2: ledger rating invariant.  In every reachable state each stored
\* player's rating is 1200 plus the sum of rating_delta over the participation
\* rows stored for that player.
C2_RatingIsLedgerSum ==
    \A p \in DOMAIN players :
        players[p].rating =
            FAdd[DefaultRating, DeltaSum(RowsOfPlayer(participations, p))]

\* C3 as stated: games-played invariant.  In every reachable state each
\* stored player's games_played is the number of participation rows stored
\* for that player.
C3_GamesPlayedIsStoredRows ==
    \A p \in DOMAIN players :
        players[p].games_played = Len(RowsOfPlayer(participations, p))

\* C3 as amended: in every reachable state each stored player's games_played
\* is the number of participation rows stored for that player plus the number
\* of that player's rows that delete_player removed together with a match the
\* deleted player had won (rows no delete_match reversed); so it is never
\* negative and never less than the number of stored rows.
C3_GamesPlayedIsUnreversedRows ==
    \A p \in DOMAIN players :
        /\ players[p].games_played =
               Len(RowsOfPlayer(participations, p)) + Len(RowsOfPlayer(erased, p))
        /\ players[p].games_played >= Len(RowsOfPlayer(participations, p))
        /\ players[p].games_played >= 0

\* C3's case: a stored player one of whose matches delete_player erased, and
\* who has played another one since or before
C3_Witness ==
    \E p \in DOMAIN players :
        /\ RowsOfPlayer(erased, p) # <<>>
        /\ RowsOfPlayer(participations, p) # <<>>

\* C4: match shape.  In every reachable state every stored match has exactly
\* one participation marked winner, which is of the match's winner_id, at
\* least one marked loser, and at most one participation per player.
C4_MatchShape ==
    \A m \in DOMAIN matches :
        LET rows == RowsOfMatch(participations, m)
        IN  /\ Len(SelectSeq(rows, LAMBDA r : r.is_winner = 1)) = 1
            /\ \A i \in 1..Len(rows) :
                   rows[i].is_winner = 1 => rows[i].player_id = matches[m].winner_id
            /\ \E i \in 1..Len(rows) : rows[i].is_winner = 0
            /\ \A i, j \in 1..Len(rows) :
                   rows[i].player_id = rows[j].player_id => i = j

\* C5: atomic recording.  A record_match that fails at one of its writes,
\* called by create_match (answer 500) or directly (it raises), leaves
\* players, matches and participations as they were before the call; and in
\* no reachable state is a match stored without its winner's participation
\* or has a player been updated for a match that is not stored.
C5_AtomicRecording ==
    /\ [][(\/ last'.op = "create_match" /\ last'.status = "500"
           \/ last'.op = "record_match" /\ last'.status = "raised")
          => UNCHANGED <<players, matches, participations, k_factor>>]_vars
    /\ [](\A m \in DOMAIN matches :
            \E i \in 1..Len(participations) :
                /\ participations[i].match_id = m
                /\ participations[i].is_winner = 1
                /\ participations[i].player_id = matches[m].winner_id)

\* C5's case: record_match has just failed, at a participation of a player
\* that is not stored or at a write the storage refused after others were
\* made, over a ledger that holds a match
C5_Witness ==
    /\ \/ last.op = "record_match" /\ last.status = "raised"
          /\ last.error = IntegrityError
       \/ last.op = "create_match" /\ last.status = "500"
          /\ last.error = StorageError
    /\ matches # <<>>

\* C6: reversal at most once.  delete_match on a match id without
\* participation rows raises "Match not found" and changes nothing; a
\* delete_match that returns leaves no participation and no match of that
\* id, and has subtracted each of its rows' rating_delta from the row's
\* player once; no later match gets the id again.
C6_ReversedAtMostOnce ==
    /\ [][last'.op = "delete_match"
          => LET rows == RowsOfMatch(participations, last'.id)
             IN  /\ rows = <<>>
                    => /\ last'.status = "raised"
                       /\ last'.error = "Match not found"
                       /\ UNCHANGED <<players, matches, participations, k_factor>>
                 /\ last'.status = "returned"
                    => /\ rows # <<>>
                       /\ RowsOfMatch(participations', last'.id) = <<>>
                       /\ last'.id \notin DOMAIN matches'
                       /\ \A p \in DOMAIN players :
                              Len(RowsOfPlayer(rows, p)) = 1
                              => players'[p].rating =
                                     FSub[players[p].rating,
                                          RowsOfPlayer(rows, p)[1].rating_delta]]_vars
    /\ [](/\ \A m \in DOMAIN matches : m < next_match_id
          /\ \A i \in 1..Len(participations) :
                 participations[i].match_id < next_match_id)

\* C6's case: delete_match has just raised "Match not found" for the id of
\* a match that was recorded and reversed before
C6_Witness ==
    /\ last.op = "delete_match"
    /\ last.error = "Match not found"
    /\ last.id < next_match_id
    /\ erased = <<>>

\* C7: cascade postcondition.  After a delete_player of P that succeeds no
\* player P is stored, no match won by P, no participation of a match P had
\* won and no participation of P; and in every reachable state every
\* participation is of a stored match and a stored player and every match's
\* winner is a stored player.
C7_Cascade ==
    /\ [][last'.op = "delete_player" /\ last'.status = "200"
          => /\ last'.id \notin DOMAIN players'
             /\ \A m \in DOMAIN matches' : matches'[m].winner_id # last'.id
             /\ \A m \in DOMAIN matches :
                    matches[m].winner_id = last'.id
                    => m \notin DOMAIN matches'
                       /\ RowsOfMatch(participations', m) = <<>>
             /\ RowsOfPlayer(participations', last'.id) = <<>>]_vars
    /\ [](/\ \A i \in 1..Len(participations) :
                 /\ participations[i].match_id \in DOMAIN matches
                 /\ participations[i].player_id \in DOMAIN players
          /\ \A m \in DOMAIN matches : matches[m].winner_id \in DOMAIN players)

\* C7's case: delete_player has just deleted a player who had won a match
\* against a player still stored and lost another match that is still stored
C7_Witness ==
    /\ last.op = "delete_player"
    /\ last.status = "200"
    /\ \E i \in 1..Len(erased) :
           /\ erased[i].player_id \in DOMAIN players
           /\ erased[i].is_winner = 0
    /\ \E i \in 1..Len(erased) :
           /\ erased[i].player_id = last.id
           /\ erased[i].is_winner = 0
    /\ matches # <<>>

\* C8: cascade frame.  delete_player of P leaves the row (rating,
\* games_played, name) of every other player as it was, and leaves every
\* match P did not win, and other players' participations of it, as they were.
C8_CascadeFrame ==
    [][last'.op = "delete_player"
       => /\ \A q \in DOMAIN players \ {last'.id} :
                 q \in DOMAIN players' /\ players'[q] = players[q]
          /\ \A m \in DOMAIN matches :
                 matches[m].winner_id # last'.id
                 => /\ m \in DOMAIN matches'
                    /\ matches'[m] = matches[m]
                    /\ SelectSeq(RowsOfMatch(participations', m),
                                 LAMBDA r : r.player_id # last'.id)
                       = SelectSeq(RowsOfMatch(participations, m),
                                   LAMBDA r : r.player_id # last'.id)]_vars

\* C8's case: delete_player has just erased a match another player took
\* part in, whose rating is still the one that match gave
C8_Witness ==
    /\ last.op = "delete_player"
    /\ last.changed
    /\ \E q \in DOMAIN players :
           /\ RowsOfPlayer(participations, q) = <<>>
           /\ players[q].rating # DefaultRating
           /\ players[q].games_played > 0

\* C9: K-factor freezing.  set_k_factor changes nothing but the setting; a
\* match is stored with the k_factor_used that the setting has when it is
\* recorded, and no request changes the k_factor_used of a stored match.
C9_KFactorFrozen ==
    [][/\ last'.op = "set_k_factor"
          => UNCHANGED <<players, matches, participations>>
       /\ \A m \in DOMAIN matches' :
              IF m \in DOMAIN matches
              THEN matches'[m].k_factor_used = matches[m].k_factor_used
              ELSE matches'[m].k_factor_used = k_factor]_vars

\* C9's case: the setting has just been changed to a value that is not the
\* k_factor_used of a stored match
C9_Witness ==
    /\ last.op = "set_k_factor"
    /\ last.changed
    /\ \E m \in DOMAIN matches : matches[m].k_factor_used # k_factor

\* C10: validation before mutation.  A create_match request (of an
\* administrator) without winner_id, date or a loser, or with a winner_id or
\* a loser id of no stored player, is answered 400 or 404 and writes nothing.
C10_ValidationBeforeMutation ==
    [][last'.op = "create_match" /\ ~last'.valid
       => /\ last'.status \in {"400", "404"}
          /\ UNCHANGED <<players, matches, participations, k_factor>>]_vars

\* C10's case: create_match has just turned down a request one of whose
\* losers is not stored, over a ledger that holds a match
C10_Witness ==
    /\ last.op = "create_match"
    /\ ~last.valid
    /\ last.error = "Loser not found"
    /\ matches # <<>>

\* C11: not-found reporting.  get_player, delete_player and delete_match,
\* given the id of no stored player or match, answer with a not-found error,
\* not with success, and change nothing.
C11_NotFoundReported ==
    [][/\ last'.op = "get_player" /\ last'.id \notin DOMAIN players
          => /\ last'.status = "404"
             /\ UNCHANGED <<players, matches, participations, k_factor>>
       /\ last'.op = "delete_player" /\ last'.id \notin DOMAIN players
          => /\ last'.status # "200"
             /\ UNCHANGED <<players, matches, participations, k_factor>>
       /\ last'.op = "delete_match" /\ last'.id \notin DOMAIN matches
          => /\ last'.status = "raised"
             /\ last'.error = "Match not found"
             /\ UNCHANGED <<players, matches, participations, k_factor>>]_vars

\* the largest games_played of the stored players
MaxGames ==
    CHOOSE g \in {players[p].games_played : p \in DOMAIN players} :
        \A p \in DOMAIN players : players[p].games_played <= g

\* C12: leaderboard threshold.  For a non-empty players table the threshold
\* of every returned record is min(15, max(5, floor(max_games / 5))): it is
\* in 5..15, and when max_games is 0 it is 5 and no player is ranked.
C12_Threshold ==
    last.op = "get_all_players" /\ players # <<>>
    => /\ last.body # <<>>
       /\ \A i \in 1..Len(last.body) :
            /\ last.body[i].threshold = Min2(15, Max2(5, MaxGames \div 5))
            /\ last.body[i].threshold \in 5..15
            /\ MaxGames = 0 => last.body[i].threshold = 5 /\ ~last.body[i].is_ranked

\* C12's case: a leaderboard whose threshold is strictly between 5 and 15,
\* with a player at the threshold and one just under it
C12_Witness ==
    /\ last.op = "get_all_players"
    /\ \E i, j \in 1..Len(last.body) :
         /\ last.body[i].threshold \in 6..14
         /\ last.body[i].games_played = last.body[i].threshold
         /\ last.body[j].games_played = last.body[j].threshold - 1

\* C13: leaderboard ordering.  get_all_players returns every stored player
\* once, with is_ranked true exactly when games_played >= threshold; every
\* ranked player comes before every provisional one, and within the ranked
\* and within the provisional players ratings do not increase.
C13_Ordering ==
    last.op = "get_all_players"
    => /\ Len(last.body) = Cardinality(DOMAIN players)
       /\ \A p \in DOMAIN players :
            \E i \in 1..Len(last.body) :
                /\ last.body[i].id = p
                /\ last.body[i].name = players[p].name
                /\ last.body[i].rating = players[p].rating
                /\ last.body[i].games_played = players[p].games_played
       /\ \A i \in 1..Len(last.body) :
            last.body[i].is_ranked
                <=> last.body[i].games_played >= last.body[i].threshold
       /\ \A i, j \in 1..Len(last.body) :
            i < j => /\ last.body[j].is_ranked => last.body[i].is_ranked
                     /\ last.body[i].is_ranked = last.body[j].is_ranked
                        => last.body[i].rating >= last.body[j].rating

\* C13's case: a leaderboard of two ranked players of different ratings,
\* stored in the other order, and a provisional player rated above one of them
C13_Witness ==
    /\ last.op = "get_all_players"
    /\ \E i, j, k \in 1..Len(last.body) :
         /\ i < j /\ j < k
         /\ last.body[i].is_ranked /\ last.body[j].is_ranked
         /\ ~last.body[k].is_ranked
         /\ last.body[i].rating > last.body[j].rating
         /\ last.body[i].id > last.body[j].id
         /\ last.body[k].rating > last.body[j].rating

\* one unit in the last place of a float
Ulp(x) == Pow2(Max2(BitLen[Abs[x]] - MantBits, 0))

\* the rows that a step leaves stored are the rows stored before, less the
\* removed ones, in their order, followed by rows of a match not stored before
RowsOnlyInsertedOrRemoved ==
    LET kept == SelectSeq(participations, LAMBDA r :
                    \E i \in 1..Len(participations') : participations'[i] = r)
    IN  /\ Len(kept) <= Len(participations')
        /\ SubSeq(participations', 1, Len(kept)) = kept
        /\ \A i \in (Len(kept) + 1)..Len(participations') :
               participations'[i].match_id \notin DOMAIN matches

\* C14 as stated: participation audit.  In every reachable state every
\* stored participation has rating_after - rating_before = rating_delta, and
\* participations are only inserted and removed, never modified.
C14_AuditExact ==
    /\ [](\A i \in 1..Len(participations) :
            FSub[participations[i].rating_after, participations[i].rating_before]
                = participations[i].rating_delta)
    /\ [][RowsOnlyInsertedOrRemoved]_vars

\* C14 as amended: in every reachable state every stored participation has
\* rating_after - rating_before = rating_delta up to the rounding of one
\* float operation: a loser's rating_after is the float sum rating_before +
\* rating_delta, a winner's rating_before is the float difference
\* rating_after - rating_delta, and the exact difference rating_after -
\* rating_before is within one unit in the last place of the ratings of
\* rating_delta; participations are only inserted and removed, never modified.
C14_AuditRounded ==
    /\ [](\A i \in 1..Len(participations) :
            LET row == participations[i]
            IN  /\ row.is_winner = 0
                   => row.rating_after = FAdd[row.rating_before, row.rating_delta]
                /\ row.is_winner = 1
                   => row.rating_before = FSub[row.rating_after, row.rating_delta]
                /\ Abs[row.rating_after - row.rating_before - row.rating_delta]
                       <= Max2(Ulp(row.rating_after), Ulp(row.rating_before)))
    /\ [][RowsOnlyInsertedOrRemoved]_vars

\* C14's case: a stored participation, of a loser and of a winner, whose
\* rating_after - rating_before is not its rating_delta
C14_Witness ==
    \E i, j \in 1..Len(participations) :
        /\ participations[i].is_winner = 0
        /\ participations[j].is_winner = 1
        /\ FSub[participations[i].rating_after, participations[i].rating_before]
               # participations[i].rating_delta
        /\ FSub[participations[j].rating_after, participations[j].rating_before]
               # participations[j].rating_delta

\* the number of entries at the head of a history that have the outcome of
\* its first entry
RECURSIVE HeadRun(_)
HeadRun(history) ==
    IF Len(history) <= 1 THEN Len(history)
    ELSE IF history[2].is_winner # history[1].is_winner THEN 1
    ELSE 1 + HeadRun(Tail(history))

\* C15: streak derivation.  For an empty history streak_type is null and
\* streak_count 0; otherwise streak_type is the outcome of the first
\* (newest) entry and streak_count the length of the longest prefix of the
\* history with that outcome: 1 <= streak_count <= total_games, and a win
\* streak is not longer than the number of wins.
C15_Streak ==
    last.op = "get_player" /\ last.status = "200"
    => LET history == last.body.history
           stats == last.body.stats
       IN  IF history = <<>>
           THEN stats.streak_type = "null" /\ stats.streak_count = 0
           ELSE /\ stats.streak_type =
                       (IF history[1].is_winner = 1 THEN "win" ELSE "loss")
                /\ stats.streak_count = HeadRun(history)
                /\ \A i \in 1..stats.streak_count :
                       history[i].is_winner = history[1].is_winner
                /\ stats.streak_count < Len(history)
                   => history[stats.streak_count + 1].is_winner
                          # history[1].is_winner
                /\ 1 <= stats.streak_count
                /\ stats.streak_count <= last.body.total_games
                /\ stats.streak_type = "win" => stats.streak_count <= stats.wins

\* C15's case: a history of two matches or more whose streak ends before an
\* entry of the streak's outcome
C15_Witness ==
    /\ last.op = "get_player"
    /\ last.status = "200"
    /\ \E i \in 1..Len(last.body.history) :
         /\ i > last.body.stats.streak_count + 1
         /\ last.body.history[i].is_winner = last.body.history[1].is_winner
    /\ \E i, j \in 1..Len(last.body.history) :
         last.body.history[i].match_id # last.body.history[j].match_id

\* C20 as stated: rating extremes.  In every state reached by match
\* recordings and reversals (no participation removed by delete_player) the
\* min_rating and max_rating that get_player computes for a player satisfy
\* min_rating <= stored rating <= max_rating, and both are the stored
\* rating when the history is empty.
C20_ExtremesBoundRating ==
    last.op = "get_player" /\ last.status = "200" /\ erased = <<>>
    => /\ last.body.min_rating <= last.body.player.rating
       /\ last.body.player.rating <= last.body.max_rating
       /\ last.body.history = <<>>
          => /\ last.body.min_rating = last.body.player.rating
             /\ last.body.max_rating = last.body.player.rating

\* the float sum of a sequence of floats, added up from the left (sum())
RECURSIVE FSum(_)
FSum(xs) ==
    IF xs = <<>> THEN 0 ELSE FAdd[FSum(SubSeq(xs, 1, Len(xs) - 1)), xs[Len(xs)]]

\* the exact sum of the stored ratings of a set of players
RECURSIVE RatingSum(_)
RatingSum(ids) ==
    IF ids = {} THEN 0
    ELSE LET p == CHOOSE x \in ids : TRUE
         IN  players[p].rating + RatingSum(ids \ {p})

\* C19: zero-sum exchange.  For the rating of every stored player as
\* winner, the ratings of every list of stored players as losers and the
\* K-factor set, calculate_deltas returns as many loser deltas as there are
\* losers and a winner_delta that is the negated sum of the loser deltas (0
\* and no delta for no loser); and as long as delete_player has removed no
\* participation the stored ratings add up to 1200 times the number of
\* players.
C19_ZeroSum ==
    /\ erased = <<>> => RatingSum(DOMAIN players)
                            = DefaultRating * Cardinality(DOMAIN players)
    /\ \A winner_id \in DOMAIN players, loser_ids \in LoserLists :
         (\A i \in 1..Len(loser_ids) : loser_ids[i] \in DOMAIN players)
         => \A deltas \in {calculate_deltas(players[winner_id].rating,
                               [i \in 1..Len(loser_ids) |->
                                    players[loser_ids[i]].rating],
                               get_k_factor(Db))} :
              /\ Len(deltas[2]) = Len(loser_ids)
              /\ deltas[1] = -FSum(deltas[2])
              /\ loser_ids = <<>> => deltas = <<0, <<>> >>

\* the create_match requests that were served to the end and committed
Recorded == {t \in DOMAIN threads :
                /\ threads[t].op = "create_match"
                /\ threads[t].pc = "done"
                /\ threads[t].status = "returned"}

\* the players of the request thread t served, each named once in it
Participants(t) ==
    IF \/ \E i \in 1..Len(threads[t].loser_ids) :
              threads[t].loser_ids[i] = threads[t].winner_id
       \/ \E i, j \in 1..Len(threads[t].loser_ids) :
              i # j /\ threads[t].loser_ids[i] = threads[t].loser_ids[j]
    THEN {}
    ELSE {threads[t].winner_id}
         \cup {threads[t].loser_ids[i] : i \in 1..Len(threads[t].loser_ids)}

\* C16: reader isolation.  Whenever a get_all_players or a
\* get_player_history has returned and the write operations it ran alongside
\* have all ended, what it returned is what it returns on the database as
\* committed before the read, or on the database as committed by one of those
\* operations: never the result on a partially applied operation.
C16_ReaderIsolation ==
    \A t \in DOMAIN threads :
        /\ threads[t].op \in {"get_all_players", "get_player_history"}
        /\ threads[t].pc = "done"
        /\ \A u \in threads[t].racing : threads[u].pc = "done"
        => threads[t].isolated

\* C17: no lost update.  When two create_match requests served at the same
\* time have both committed, a player who takes part in both (once in each)
\* has the rating it had before both plus the two rating_delta stored for
\* it, up to the rounding of the two float additions.
C17_NoLostUpdate ==
    \A t, u \in Recorded :
        t # u =>
        \A p \in Participants(t) \cap Participants(u) :
            /\ p \in DOMAIN players
            /\ Len(RowsOfPlayer(participations, p)) = 2
            => \A rows \in {RowsOfPlayer(participations, p)} :
                 Abs[players[p].rating
                       - (TwoPlayers.players[p].rating
                            + rows[1].rating_delta + rows[2].rating_delta)]
                   <= 2 * Ulp(players[p].rating)

\* C18: the K-factor is read once per recording.  For every match a
\* create_match request has committed, the stored k_factor_used is the k
\* the request computed the match's rating_delta values with.
C18_KFactorReadOnce ==
    \A t \in Recorded :
        threads[t].id \in DOMAIN matches
        => matches[threads[t].id].k_factor_used = threads[t].k

\* C21: the matches history is complete.  Whenever GET /api/matches has
\* answered, its list holds exactly one entry for every stored match and no
\* entry for a match that is not stored.
C21_MatchesHistoryComplete ==
    last.op = "get_matches_history"
    => /\ \A m \in DOMAIN matches :
            Cardinality({i \in 1..Len(last.body) : last.body[i].id = m}) = 1
       /\ \A i \in 1..Len(last.body) : last.body[i].id \in DOMAIN matches
====
